---- MODULE Spec2Model ----
(***************************************************************************)
(* Identity resolution, credential issuance and wallet provisioning of the *)
(* baldness-detector service.                                              *)
(*                                                                         *)
(* The users table is the set of committed rows of a PostgreSQL table at   *)
(* READ COMMITTED isolation.  Every request owns a session; a coroutine    *)
(* may be interleaved with others at each await, so each awaited database  *)
(* statement is one action.  An UPDATE followed by commit, and the INSERT  *)
(* flushed inside commit, take effect atomically at the commit.            *)
(***************************************************************************)
EXTENDS Integers, Sequences, FiniteSets, TLC

\* ---------------------------------------------------------------- bounds
NReq == 2
NDirect == 2
MaxClock == 2

Reqs == 1..NReq
DirectTasks == (NReq + 1)..(NReq + NDirect)
Tasks == Reqs \cup DirectTasks
UserIds == 1..NReq

NULL == "NULL"
Emails == {"e1", "e2"}
Gids == {"g1"}
Addrs == {"0xA", "0xB"}
Blank == " "
MaxNameLen == 255

\* a name one character longer than the validator accepts
LongName == [i \in 1..(MaxNameLen + 1) |-> "a"]

VARIABLES
    users,      \* committed rows of the users table
    nextId,     \* next value of the identity sequence of users.id
    rpc,        \* request -> position in its handler
    rflow,      \* request -> "email" | "google"
    rreq,       \* request -> the request body, or the provider's answer
    rdto,       \* request -> the validated UserDTO
    rbranch,    \* request -> return statement taken by __create_or_get_user
    ruser,      \* request -> the User entity returned by create_or_update
    rstatus,    \* request -> HTTP status of the response (0: none yet)
    rexc,       \* request -> exception caught by the flow's handler
    rinserted,  \* request -> id of the row this request inserted (0: none)
    rpred,      \* request -> requests whose create-or-get ended before its own began
    rtoken,     \* request -> access_token of the response
    rdetail,    \* request -> detail of the error response
    rcalls,     \* request -> calls made to the provider's userinfo endpoint
    tpc,        \* task -> position in create_wallet_background_task
    tuid,       \* task -> user_id argument
    taddr,      \* task -> address obtained from create_wallet
    twrote,     \* task -> update_wallet_address was executed
    texc,       \* task -> exception logged by create_and_assign_wallet
    clock,      \* current time, in hours
    jissue,     \* outcome of the last direct create_access_token call
    mtoken,     \* GET /auth/me -> the bearer token presented
    mverify,    \* GET /auth/me -> what verify_token returned
    mat,        \* GET /auth/me -> time at which verify_token ran
    mstatus,    \* GET /auth/me -> HTTP status of the response (0: none yet)
    muser,      \* GET /auth/me -> the user returned by get_current_user
    dpc,        \* detection request: position in its handler
    dreq,       \* detection request: endpoint, Authorization header, upload
    ddep,       \* detection request: outcome of Depends(get_current_user)
    dexc,       \* detection request: exception raised inside the handler's try
    dstatus,    \* detection request: HTTP status of the response (0: none yet)
    ddetail,    \* detection request: detail of an error raised by the handler
    dread,      \* detection request: photo.read() was awaited
    dinvoked,   \* detection request: process_image was called
    dresult,    \* detection request: sizes of what process_image returned
    dchunks,    \* detection request: chunks sent by the StreamingResponse
    nname,      \* UserDTO(name=...): the name passed in
    nres,       \* UserDTO(name=...): what validate_name did with it
    presult     \* the BaldnessResult of a direct process_image call

vars == <<users, nextId, rpc, rflow, rreq, rdto, rbranch, ruser, rstatus, rexc,
          rinserted, rpred, rtoken, rdetail, rcalls, tpc, tuid, taddr, twrote, texc, clock,
          jissue,
          mtoken, mverify, mat, mstatus, muser, dpc, dreq, ddep, dexc,
          dstatus, ddetail, dread, dinvoked, dresult, dchunks, nname,
          nres, presult>>
rvars == <<rpc, rflow, rreq, rdto, rbranch, ruser, rstatus, rexc, rinserted, rpred,
          rtoken, rdetail, rcalls>>
tvars == <<tpc, tuid, taddr, twrote, texc>>
jvars == <<clock, jissue>>
mvars == <<mtoken, mverify, mat, mstatus, muser>>
dvars == <<dpc, dreq, ddep, dexc, dstatus, ddetail, dread, dinvoked, dresult,
          dchunks>>
nvars == <<nname, nres>>
pvars == <<presult>>

\* ------------------------------------------------------------ data types
NoUser ==
    [id |-> 0, email |-> NULL, name |-> <<>>, picture |-> NULL,
     google_id |-> NULL, wallet_address |-> NULL, created_at |-> 0]

NoDto == [email |-> NULL, name |-> <<>>, picture |-> NULL, google_id |-> NULL]

\* User(email=..., name=..., picture=..., google_id=...): wallet_address
\* absent, created_at filled in by the server default now() on INSERT
User(id, dto, now) ==
    [id |-> id, email |-> dto.email, name |-> dto.name, picture |-> dto.picture,
     google_id |-> dto.google_id, wallet_address |-> NULL, created_at |-> now]

\* ------------------------------------------------------- UserDTO validation
RECURSIVE lstrip(_)
lstrip(s) == IF s # <<>> /\ Head(s) = Blank THEN lstrip(Tail(s)) ELSE s

RECURSIVE rstrip(_)
rstrip(s) ==
    IF s # <<>> /\ s[Len(s)] = Blank THEN rstrip(SubSeq(s, 1, Len(s) - 1)) ELSE s

strip(s) == rstrip(lstrip(s))

\* the validator without its length check
validate_name_nolen(v) ==
    IF v = <<>> \/ Len(strip(v)) < 1
    THEN [ok |-> FALSE, value |-> <<>>, err |-> "Name cannot be empty"]
    ELSE [ok |-> TRUE, value |-> strip(v), err |-> ""]

validate_name(v) ==
    IF v = <<>> \/ Len(strip(v)) < 1
    THEN [ok |-> FALSE, value |-> <<>>, err |-> "Name cannot be empty"]
    ELSE IF Len(v) > MaxNameLen
         THEN [ok |-> FALSE, value |-> <<>>,
               err |-> "Name cannot exceed 255 characters"]
         ELSE [ok |-> TRUE, value |-> strip(v), err |-> ""]

\* validate_name not called yet
NoValidation == [ok |-> FALSE, value |-> <<>>, err |-> "none"]

\* --------------------------------------------------------- PgUserRepository
first(S) == IF S = {} THEN NoUser ELSE CHOOSE u \in S : \A v \in S : u.id <= v.id

get_by_email_wrongcol(tbl, email) == first({u \in tbl : u.google_id = email})
get_by_email(tbl, email) == first({u \in tbl : u.email = email})

get_by_google_id(tbl, gid) == first({u \in tbl : u.google_id = gid})

\* the SELECT without its WHERE clause on users.id
get_by_id_any(tbl, id) == first(tbl)

get_by_id(tbl, id) == first({u \in tbl : u.id = id})

\* unique=True on users.email
EmailConflict_none(tbl, email) == FALSE
EmailConflict(tbl, email) == \E u \in tbl : u.email = email

\* users.wallet_address without its unique constraint
WalletConflict_none(tbl, id, addr) == FALSE

\* unique=True on users.wallet_address
WalletConflict(tbl, id, addr) ==
    addr # NULL /\ \E u \in tbl : u.id # id /\ u.wallet_address = addr

\* the UPDATE without google_id among its values
UpdateByEmail_keepgid(tbl, dto) ==
    {IF u.email = dto.email
     THEN [u EXCEPT !.name = dto.name, !.picture = dto.picture]
     ELSE u : u \in tbl}

\* update(User).where(User.email == dto.email).values(name, picture, google_id)
UpdateByEmail(tbl, dto) ==
    {IF u.email = dto.email
     THEN [u EXCEPT !.name = dto.name, !.picture = dto.picture,
                    !.google_id = dto.google_id]
     ELSE u : u \in tbl}

\* the wallet update also stamping the row with the time of the update
UpdateWallet_stamped(tbl, id, addr) ==
    {IF u.id = id
     THEN [u EXCEPT !.wallet_address = addr, !.created_at = clock]
     ELSE u : u \in tbl}

\* update(User).where(User.id == user_id).values(wallet_address=...)
UpdateWallet(tbl, id, addr) ==
    {IF u.id = id THEN [u EXCEPT !.wallet_address = addr] ELSE u : u \in tbl}

\* ------------------------------------------------------------------ JWTAuth
jwt_secret_key == "secret"
jwt_expiration_hours == 24

\* str(user_id): the decimal digits of a non-negative integer
RECURSIVE str(_)
str(n) == IF n < 10 THEN <<n>> ELSE str(n \div 10) \o <<n % 10>>

\* a bearer string: either not a JWT at all, or a JWT signed with some key
\* that carries sub (<<>>: absent), email (NULL: absent) and exp
NoToken ==
    [wellformed |-> FALSE, key |-> NULL, sub |-> <<>>, email |-> NULL, exp |-> 0]

Token(key, sub, email, exp) ==
    [wellformed |-> TRUE, key |-> key, sub |-> sub, email |-> email, exp |-> exp]

\* verify_token returns None
NoPayload == [ok |-> FALSE, sub |-> <<>>, email |-> NULL, exp |-> 0]

\* the "iat" entry evaluates datetime.datetime.now(datetime.UTC) on the
\* imported class datetime, which has no attribute datetime
iat_now(now) == [ok |-> FALSE, exc |-> "AttributeError", value |-> now]

\* expires_delta = 0 stands for None and for a zero timedelta, both falsy
create_access_token(user_id, email, expires_delta, now) ==
    LET expire == IF expires_delta # 0
                  THEN now + expires_delta
                  ELSE now + jwt_expiration_hours
        iat == iat_now(now)
    IN  IF ~iat.ok
        THEN [ok |-> FALSE, exc |-> iat.exc, token |-> NoToken]
        ELSE [ok |-> TRUE, exc |-> "none",
              token |-> Token(jwt_secret_key, str(user_id), email, expire)]

\* jwt.decode raises DecodeError, InvalidSignatureError or
\* ExpiredSignatureError (exp <= now); each is a PyJWTError and gives None
verify_token(token, now) ==
    IF ~token.wellformed THEN NoPayload
    ELSE IF token.key # jwt_secret_key THEN NoPayload
    ELSE IF token.exp <= now THEN NoPayload
    ELSE [ok |-> TRUE, sub |-> token.sub, email |-> token.email,
          exp |-> token.exp]

\* get_current_user without the comparison of the row's id with "sub"
get_current_user_nosub(tbl, token, now) ==
    LET payload == verify_token(token, now)
        user_id == payload.sub
        email == payload.email
        user == get_by_email(tbl, email)
    IN  IF payload = NoPayload
        THEN [status |-> 401, detail |-> "Invalid authentication token",
              user |-> NoUser]
        ELSE IF user_id = <<>> \/ email = NULL
        THEN [status |-> 401, detail |-> "Invalid token payload",
              user |-> NoUser]
        ELSE IF user = NoUser
        THEN [status |-> 401, detail |-> "User not found", user |-> NoUser]
        ELSE [status |-> 200, detail |-> "", user |-> user]

\* get_current_user: the response of GET /auth/me for a bearer token
get_current_user(tbl, token, now) ==
    LET payload == verify_token(token, now)
        user_id == payload.sub
        email == payload.email
        user == get_by_email(tbl, email)
    IN  IF payload = NoPayload
        THEN [status |-> 401, detail |-> "Invalid authentication token",
              user |-> NoUser]
        ELSE IF user_id = <<>> \/ email = NULL
        THEN [status |-> 401, detail |-> "Invalid token payload",
              user |-> NoUser]
        ELSE IF user = NoUser \/ str(user.id) # user_id
        THEN [status |-> 401, detail |-> "User not found", user |-> NoUser]
        ELSE [status |-> 200, detail |-> "", user |-> user]

\* no create_access_token call made yet
NoIssue ==
    [called |-> FALSE, user_id |-> 0, email |-> NULL, expires_delta |-> 0,
     at |-> 0, ok |-> FALSE, exc |-> "none", token |-> NoToken]

\* ----------------------------------------------------------- auth handlers
\* both flows answering with the email flow's status
ErrorStatus_400(flow) == 400
ErrorStatus(flow) == IF flow = "email" THEN 400 ELSE 401

\* is_new_user and not user.wallet_address
ShouldProvision_any(is_new, user) == user.wallet_address = NULL
ShouldProvision(is_new, user) == is_new /\ user.wallet_address = NULL

\* background_tasks.add_task(...): the task is registered, not started
add_task_inline == "fetch"
add_task == "scheduled"

IsNew(r) == rbranch[r] = "new"

\* __create_or_get_user has returned a (user, is_new) pair to request r
CogDone(r) == rpc[r] \in {"schedule", "issue", "done"} /\ ruser[r] # NoUser

\* the body of a POST /auth/email request
EmailRequest(email, name, picture) ==
    [raised |-> FALSE, status |-> 200, email |-> email, has_name |-> TRUE,
     name |-> name, picture |-> picture, sub |-> NULL]

\* bodies sent to the email flow: each email with a name that needs
\* trimming, and one email with a blank name and with a name that is too long
EmailRequests ==
    {EmailRequest(e, <<Blank, "b">>, "p") : e \in Emails}
    \cup {EmailRequest("e1", <<Blank>>, NULL),
          EmailRequest("e1", LongName, NULL)}

NoReq ==
    [raised |-> FALSE, status |-> 0, email |-> NULL, has_name |-> FALSE,
     name |-> <<>>, picture |-> NULL, sub |-> NULL]

\* ---- a detection request before it arrives
\* UploadFile.content_type: the part's Content-Type header, None when the
\* part has none
NoContentType == [present |-> FALSE, value |-> <<>>]

\* the Authorization header of a request
NoHeader == [present |-> FALSE, credentials |-> NoToken]

NoExc == [raised |-> FALSE, http |-> FALSE, status_code |-> 0, detail |-> <<>>]

NoDetReq ==
    [endpoint |-> "none", header |-> NoHeader, content_type |-> NoContentType]

NoDep == [status |-> 0, detail |-> ""]

\* no result returned by process_image
NoSizes == [metadata |-> 0, image |-> 0]

DetInit ==
    /\ dpc = "idle"
    /\ dreq = NoDetReq
    /\ ddep = NoDep
    /\ dexc = NoExc
    /\ dstatus = 0
    /\ ddetail = <<>>
    /\ dread = FALSE
    /\ dinvoked = FALSE
    /\ dresult = NoSizes
    /\ dchunks = <<>>

\* process_image not called yet
NoResult ==
    [called |-> FALSE, level |-> 0, category |-> "NONE", areas |-> <<>>,
     next |-> 0, returned |-> FALSE]

\* no error response
NoDetail == <<"", "">>

Init ==
    /\ users = {}
    /\ nextId = 1
    /\ rpc = [r \in Reqs |-> "idle"]
    /\ rflow = [r \in Reqs |-> "none"]
    /\ rdto = [r \in Reqs |-> NoDto]
    /\ rbranch = [r \in Reqs |-> "none"]
    /\ ruser = [r \in Reqs |-> NoUser]
    /\ rstatus = [r \in Reqs |-> 0]
    /\ rexc = [r \in Reqs |-> "none"]
    /\ rinserted = [r \in Reqs |-> 0]
    /\ rpred = [r \in Reqs |-> {}]
    /\ rreq = [r \in Reqs |-> NoReq]
    /\ rtoken = [r \in Reqs |-> NoToken]
    /\ rdetail = [r \in Reqs |-> NoDetail]
    /\ rcalls = [r \in Reqs |-> 0]
    /\ clock = 0
    /\ jissue = NoIssue
    /\ mtoken = NoToken
    /\ mverify = NoPayload
    /\ mat = 0
    /\ mstatus = 0
    /\ muser = NoUser
    /\ tpc = [t \in Tasks |-> "idle"]
    /\ tuid = [t \in Tasks |-> 0]
    /\ taddr = [t \in Tasks |-> NULL]
    /\ twrote = [t \in Tasks |-> FALSE]
    /\ texc = [t \in Tasks |-> "none"]
    /\ DetInit
    /\ nname = <<>>
    /\ nres = NoValidation
    /\ presult = NoResult

\* detail=f"Email authentication failed: {str(e)}" and
\* detail=f"Google authentication failed: {str(e)}": the literal, then str(e)
ErrorDetail(flow, exc) ==
    <<IF flow = "email" THEN "Email authentication failed: "
      ELSE "Google authentication failed: ", exc>>

\* the userinfo round trip repeated once after a failed answer
userinfo_calls_retry(resp) == IF resp.raised \/ resp.status # 200 THEN 2 ELSE 1

\* client.get('https://www.googleapis.com/oauth2/v2/userinfo', ...) is
\* awaited once, whatever the answer
userinfo_calls(resp) == 1

\* the flow's "except Exception" turns any exception into an error response;
\* tasks registered on background_tasks are not run for an error response
Fail(r, flow, exc) ==
    /\ rpc' = [rpc EXCEPT ![r] = "done"]
    /\ rexc' = [rexc EXCEPT ![r] = exc]
    /\ rstatus' = [rstatus EXCEPT ![r] = ErrorStatus(flow)]
    /\ rdetail' = [rdetail EXCEPT ![r] = ErrorDetail(flow, exc)]

\* POST /auth/email: UserDTO(email, name, picture)
BeginEmail(r) ==
    /\ rpc[r] = "idle"
    /\ \E email_auth \in EmailRequests :
         LET v == validate_name(email_auth.name) IN
         /\ rflow' = [rflow EXCEPT ![r] = "email"]
         /\ rreq' = [rreq EXCEPT ![r] = email_auth]
         /\ IF v.ok
            THEN /\ rdto' = [rdto EXCEPT ![r] =
                        [email |-> email_auth.email, name |-> v.value,
                         picture |-> email_auth.picture, google_id |-> NULL]]
                 /\ rpred' = [rpred EXCEPT ![r] = {q \in Reqs : CogDone(q)}]
                 /\ rpc' = [rpc EXCEPT ![r] = "get_by_email"]
                 /\ UNCHANGED <<rexc, rstatus, rdetail>>
            ELSE /\ Fail(r, "email", v.err)
                 /\ UNCHANGED <<rdto, rpred>>
    /\ UNCHANGED <<users, nextId, rbranch, ruser, rinserted, rtoken, rcalls>>
    /\ UNCHANGED <<tvars, jvars, mvars, dvars, nvars, pvars>>

\* what the provider's userinfo endpoint answers: the call raises, a
\* non-success status, a profile without email, a profile without name, a
\* profile without a subject id, or a full profile
ProviderResponses ==
    {[raised |-> TRUE, status |-> 0, email |-> NULL, has_name |-> FALSE,
      name |-> <<>>, picture |-> NULL, sub |-> NULL],
     [raised |-> FALSE, status |-> 401, email |-> NULL, has_name |-> FALSE,
      name |-> <<>>, picture |-> NULL, sub |-> NULL],
     [raised |-> FALSE, status |-> 200, email |-> NULL, has_name |-> TRUE,
      name |-> <<"a">>, picture |-> NULL, sub |-> "g1"],
     [raised |-> FALSE, status |-> 200, email |-> "e1", has_name |-> FALSE,
      name |-> <<>>, picture |-> NULL, sub |-> "g1"],
     [raised |-> FALSE, status |-> 200, email |-> "e1", has_name |-> TRUE,
      name |-> <<"a">>, picture |-> NULL, sub |-> NULL]}
    \cup
    {[raised |-> FALSE, status |-> 200, email |-> e, has_name |-> TRUE,
      name |-> <<"a">>, picture |-> NULL, sub |-> g] :
        e \in Emails, g \in Gids}

\* POST /auth/google: userinfo round trip, then UserDTO from the profile
BeginGoogle(r) ==
    /\ rpc[r] = "idle"
    /\ \E resp \in ProviderResponses :
         LET name == IF resp.has_name THEN resp.name ELSE <<>>
             v == validate_name(name)
         IN
         /\ rflow' = [rflow EXCEPT ![r] = "google"]
         /\ rreq' = [rreq EXCEPT ![r] = resp]
         /\ rcalls' = [rcalls EXCEPT ![r] = @ + userinfo_calls(resp)]
         /\ IF resp.raised
            THEN Fail(r, "google", "ConnectError") /\ UNCHANGED <<rdto, rpred>>
            ELSE IF resp.status # 200
            THEN Fail(r, "google", "HTTPException") /\ UNCHANGED <<rdto, rpred>>
            ELSE IF resp.email = NULL
            THEN Fail(r, "google", "KeyError") /\ UNCHANGED <<rdto, rpred>>
            ELSE IF ~v.ok
            THEN Fail(r, "google", v.err) /\ UNCHANGED <<rdto, rpred>>
            ELSE /\ rdto' = [rdto EXCEPT ![r] =
                        [email |-> resp.email, name |-> v.value,
                         picture |-> resp.picture, google_id |-> resp.sub]]
                 /\ rpred' = [rpred EXCEPT ![r] = {q \in Reqs : CogDone(q)}]
                 /\ rpc' = [rpc EXCEPT ![r] = "get_by_email"]
                 /\ UNCHANGED <<rexc, rstatus, rdetail>>
    /\ UNCHANGED <<users, nextId, rbranch, ruser, rinserted, rtoken>>
    /\ UNCHANGED <<tvars, jvars, mvars, dvars, nvars, pvars>>

\* __create_or_get_user: existing_user = await get_by_email(email)
GetByEmail(r) ==
    /\ rpc[r] = "get_by_email"
    /\ LET existing_user == get_by_email(users, rdto[r].email) IN
       IF existing_user # NoUser
       THEN /\ rbranch' = [rbranch EXCEPT ![r] = "email"]
            /\ rpc' = [rpc EXCEPT ![r] = "cou_select"]
       ELSE IF rdto[r].google_id # NULL
       THEN /\ rpc' = [rpc EXCEPT ![r] = "get_by_google_id"]
            /\ UNCHANGED rbranch
       ELSE /\ rbranch' = [rbranch EXCEPT ![r] = "new"]
            /\ rpc' = [rpc EXCEPT ![r] = "cou_select"]
    /\ UNCHANGED <<users, nextId, rflow, rreq, rdto, ruser, rstatus, rexc, rdetail,
                   rinserted, rpred, rtoken, rcalls>>
    /\ UNCHANGED <<tvars, jvars, mvars, dvars, nvars, pvars>>

\* __create_or_get_user: existing_user = await get_by_google_id(google_id)
GetByGoogleId(r) ==
    /\ rpc[r] = "get_by_google_id"
    /\ LET existing_user == get_by_google_id(users, rdto[r].google_id) IN
       rbranch' = [rbranch EXCEPT ![r] =
                      IF existing_user # NoUser THEN "google_id" ELSE "new"]
    /\ rpc' = [rpc EXCEPT ![r] = "cou_select"]
    /\ UNCHANGED <<users, nextId, rflow, rreq, rdto, ruser, rstatus, rexc, rdetail,
                   rinserted, rpred, rtoken, rcalls>>
    /\ UNCHANGED <<tvars, jvars, mvars, dvars, nvars, pvars>>

\* create_or_update: select(User).where(User.email == user_dto.email)
CouSelect(r) ==
    /\ rpc[r] = "cou_select"
    /\ LET existing_user == get_by_email(users, rdto[r].email) IN
       rpc' = [rpc EXCEPT ![r] =
                  IF existing_user # NoUser THEN "cou_update" ELSE "cou_insert"]
    /\ UNCHANGED <<users, nextId, rflow, rreq, rdto, rbranch, ruser, rstatus,
                   rexc, rdetail,
                   rinserted, rpred, rtoken, rcalls>>
    /\ UNCHANGED <<tvars, jvars, mvars, dvars, nvars, pvars>>

\* create_or_update, existing row: UPDATE ... RETURNING, commit, return
CouUpdate(r) ==
    /\ rpc[r] = "cou_update"
    /\ users' = UpdateByEmail(users, rdto[r])
    /\ ruser' = [ruser EXCEPT ![r] = get_by_email(users', rdto[r].email)]
    /\ rpc' = [rpc EXCEPT ![r] = "schedule"]
    /\ UNCHANGED <<nextId, rflow, rreq, rdto, rbranch, rstatus, rexc, rdetail,
                   rinserted, rpred, rtoken, rcalls>>
    /\ UNCHANGED <<tvars, jvars, mvars, dvars, nvars, pvars>>

\* create_or_update, no row seen: session.add(new_user), commit.
\* The identity value is consumed even when the INSERT is rejected.
CouInsert(r) ==
    /\ rpc[r] = "cou_insert"
    /\ nextId' = nextId + 1
    /\ IF EmailConflict(users, rdto[r].email)
       THEN /\ Fail(r, rflow[r], "IntegrityError")
            /\ UNCHANGED <<users, rinserted>>
       ELSE /\ users' = users \cup {User(nextId, rdto[r], clock)}
            /\ rinserted' = [rinserted EXCEPT ![r] = nextId]
            /\ rpc' = [rpc EXCEPT ![r] = "cou_refresh"]
            /\ UNCHANGED <<rstatus, rexc, rdetail>>
    /\ UNCHANGED <<rflow, rreq, rdto, rbranch, ruser, rpred, rtoken, rcalls>>
    /\ UNCHANGED <<tvars, jvars, mvars, dvars, nvars, pvars>>

\* create_or_update: session.refresh(new_user), return
CouRefresh(r) ==
    /\ rpc[r] = "cou_refresh"
    /\ ruser' = [ruser EXCEPT ![r] = get_by_id(users, rinserted[r])]
    /\ rpc' = [rpc EXCEPT ![r] = "schedule"]
    /\ UNCHANGED <<users, nextId, rflow, rreq, rdto, rbranch, rstatus, rexc, rdetail,
                   rinserted, rpred, rtoken, rcalls>>
    /\ UNCHANGED <<tvars, jvars, mvars, dvars, nvars, pvars>>

\* if is_new_user and not user.wallet_address: background_tasks.add_task(...)
Schedule(r) ==
    /\ rpc[r] = "schedule"
    /\ IF ruser[r] = NoUser
       THEN /\ Fail(r, rflow[r], "AttributeError")
            /\ UNCHANGED <<tpc, tuid>>
       ELSE /\ rpc' = [rpc EXCEPT ![r] = "issue"]
            /\ UNCHANGED <<rstatus, rexc, rdetail>>
            /\ IF ShouldProvision(IsNew(r), ruser[r])
               THEN /\ tpc' = [tpc EXCEPT ![r] = add_task]
                    /\ tuid' = [tuid EXCEPT ![r] = ruser[r].id]
               ELSE UNCHANGED <<tpc, tuid>>
    /\ UNCHANGED <<users, nextId, rflow, rreq, rdto, rbranch, ruser,
                   rinserted, rpred, rtoken, rcalls>>
    /\ UNCHANGED <<taddr, twrote, texc, jvars, mvars, dvars, nvars, pvars>>

\* access_token = create_access_token(user.id, user.email); return the
\* response.  Registered tasks start after a returned response and are
\* discarded when the handler raises.
Issue(r) ==
    /\ rpc[r] = "issue"
    /\ LET tok == create_access_token(ruser[r].id, ruser[r].email, 0, clock) IN
       IF tok.ok
       THEN /\ rpc' = [rpc EXCEPT ![r] = "done"]
            /\ rstatus' = [rstatus EXCEPT ![r] = 200]
            /\ rtoken' = [rtoken EXCEPT ![r] = tok.token]
            /\ tpc' = [tpc EXCEPT ![r] = IF @ = "scheduled" THEN "fetch" ELSE @]
            /\ UNCHANGED <<rexc, rdetail>>
       ELSE /\ Fail(r, rflow[r], tok.exc)
            /\ tpc' = [tpc EXCEPT ![r] = IF @ = "scheduled" THEN "dropped" ELSE @]
            /\ UNCHANGED rtoken
    /\ UNCHANGED <<users, nextId, rflow, rreq, rdto, rbranch, ruser,
                   rinserted, rpred, rcalls>>
    /\ UNCHANGED <<tuid, taddr, twrote, texc, jvars, mvars, dvars, nvars, pvars>>

\* ------------------------------------------------------------ provisioning
\* create_wallet_background_task(user_id, db_session) called directly
InvokeProvision(t) ==
    /\ t \in DirectTasks
    /\ tpc[t] = "idle"
    /\ \E u \in UserIds :
         /\ tuid' = [tuid EXCEPT ![t] = u]
         /\ tpc' = [tpc EXCEPT ![t] = "fetch"]
    /\ UNCHANGED <<users, nextId, taddr, twrote, texc>>
    /\ UNCHANGED <<rvars, jvars, mvars, dvars, nvars, pvars>>

\* create_and_assign_wallet without the "if user.wallet_address" return
ProvFetch_nocheck(t) ==
    /\ tpc[t] = "fetch"
    /\ LET user == get_by_id(users, tuid[t]) IN
       IF user = NoUser
       THEN tpc' = [tpc EXCEPT ![t] = "done"] /\ UNCHANGED taddr
       ELSE tpc' = [tpc EXCEPT ![t] = "create"] /\ UNCHANGED taddr
    /\ UNCHANGED <<users, nextId, tuid, twrote, texc>>
    /\ UNCHANGED <<rvars, jvars, mvars, dvars, nvars, pvars>>

\* create_and_assign_wallet: user = await get_by_id(user_id)
ProvFetch(t) ==
    /\ tpc[t] = "fetch"
    /\ LET user == get_by_id(users, tuid[t]) IN
       IF user = NoUser
       THEN tpc' = [tpc EXCEPT ![t] = "done"] /\ UNCHANGED taddr
       ELSE IF user.wallet_address # NULL
       THEN /\ tpc' = [tpc EXCEPT ![t] = "done"]
            /\ taddr' = [taddr EXCEPT ![t] = user.wallet_address]
       ELSE tpc' = [tpc EXCEPT ![t] = "create"] /\ UNCHANGED taddr
    /\ UNCHANGED <<users, nextId, tuid, twrote, texc>>
    /\ UNCHANGED <<rvars, jvars, mvars, dvars, nvars, pvars>>

\* wallet_address = await self.create_wallet(str(user_id)): the external
\* endpoint answers with some address, or the call raises
ProvCreate(t) ==
    /\ tpc[t] = "create"
    /\ \/ \E a \in Addrs :
            /\ taddr' = [taddr EXCEPT ![t] = a]
            /\ tpc' = [tpc EXCEPT ![t] = "write"]
          /\ UNCHANGED texc
       \/ /\ tpc' = [tpc EXCEPT ![t] = "failed"]
          /\ texc' = [texc EXCEPT ![t] = "Wallet creation failed"]
          /\ UNCHANGED taddr
    /\ UNCHANGED <<users, nextId, tuid, twrote>>
    /\ UNCHANGED <<rvars, jvars, mvars, dvars, nvars, pvars>>

\* update_wallet_address whose rejected UPDATE still reaches the table
ProvWrite_dirty(t) ==
    /\ tpc[t] = "write"
    /\ users' = UpdateWallet(users, tuid[t], taddr[t])
    /\ IF WalletConflict(users, tuid[t], taddr[t])
       THEN /\ tpc' = [tpc EXCEPT ![t] = "failed"]
            /\ taddr' = [taddr EXCEPT ![t] = NULL]
            /\ texc' = [texc EXCEPT ![t] = "IntegrityError"]
            /\ UNCHANGED twrote
       ELSE /\ twrote' = [twrote EXCEPT ![t] = TRUE]
            /\ tpc' = [tpc EXCEPT ![t] = "done"]
            /\ UNCHANGED <<taddr, texc>>
    /\ UNCHANGED <<nextId, tuid>>
    /\ UNCHANGED <<rvars, jvars, mvars, dvars, nvars, pvars>>

\* await user_repository.update_wallet_address(user_id, wallet_address)
ProvWrite(t) ==
    /\ tpc[t] = "write"
    /\ IF WalletConflict(users, tuid[t], taddr[t])
       THEN /\ tpc' = [tpc EXCEPT ![t] = "failed"]
            /\ taddr' = [taddr EXCEPT ![t] = NULL]
            /\ texc' = [texc EXCEPT ![t] = "IntegrityError"]
            /\ UNCHANGED <<users, twrote>>
       ELSE /\ users' = UpdateWallet(users, tuid[t], taddr[t])
            /\ twrote' = [twrote EXCEPT ![t] = TRUE]
            /\ tpc' = [tpc EXCEPT ![t] = "done"]
            /\ UNCHANGED <<taddr, texc>>
    /\ UNCHANGED <<nextId, tuid>>
    /\ UNCHANGED <<rvars, jvars, mvars, dvars, nvars, pvars>>

Next ==
    \/ \E r \in Reqs : BeginEmail(r)
    \/ \E r \in Reqs : BeginGoogle(r)
    \/ \E r \in Reqs : GetByEmail(r)
    \/ \E r \in Reqs : GetByGoogleId(r)
    \/ \E r \in Reqs : CouSelect(r)
    \/ \E r \in Reqs : CouUpdate(r)
    \/ \E r \in Reqs : CouInsert(r)
    \/ \E r \in Reqs : CouRefresh(r)
    \/ \E r \in Reqs : Schedule(r)
    \/ \E r \in Reqs : Issue(r)

\* concurrent authentication requests against an empty users table
Spec == Init /\ [][Next]_vars

\* ------------------------------------------------ provisioning in isolation
\* users tables left behind by authentication requests: distinct ids and
\* emails, validated names, no wallet assigned yet
StoredRows ==
    {[id |-> i, email |-> e, name |-> <<"a">>, picture |-> NULL,
      google_id |-> g, wallet_address |-> NULL, created_at |-> 0] :
        i \in UserIds, e \in Emails, g \in {NULL, "g1"}}

StoredTables ==
    {tbl \in SUBSET StoredRows :
        \A u \in tbl, v \in tbl : (u.id = v.id \/ u.email = v.email) => u = v}

InitProv ==
    /\ users \in StoredTables
    /\ nextId = NReq + 1
    /\ rpc = [r \in Reqs |-> "idle"]
    /\ rflow = [r \in Reqs |-> "none"]
    /\ rdto = [r \in Reqs |-> NoDto]
    /\ rbranch = [r \in Reqs |-> "none"]
    /\ ruser = [r \in Reqs |-> NoUser]
    /\ rstatus = [r \in Reqs |-> 0]
    /\ rexc = [r \in Reqs |-> "none"]
    /\ rinserted = [r \in Reqs |-> 0]
    /\ rpred = [r \in Reqs |-> {}]
    /\ rreq = [r \in Reqs |-> NoReq]
    /\ rtoken = [r \in Reqs |-> NoToken]
    /\ rdetail = [r \in Reqs |-> NoDetail]
    /\ rcalls = [r \in Reqs |-> 0]
    /\ clock = 0
    /\ jissue = NoIssue
    /\ mtoken = NoToken
    /\ mverify = NoPayload
    /\ mat = 0
    /\ mstatus = 0
    /\ muser = NoUser
    /\ tpc = [t \in Tasks |-> "idle"]
    /\ tuid = [t \in Tasks |-> 0]
    /\ taddr = [t \in Tasks |-> NULL]
    /\ twrote = [t \in Tasks |-> FALSE]
    /\ texc = [t \in Tasks |-> "none"]
    /\ DetInit
    /\ nname = <<>>
    /\ nres = NoValidation
    /\ presult = NoResult

NextProv ==
    \/ \E t \in Tasks : InvokeProvision(t)
    \/ \E t \in Tasks : ProvFetch(t)
    \/ \E t \in Tasks : ProvCreate(t)
    \/ \E t \in Tasks : ProvWrite(t)

\* provisioning tasks invoked concurrently on a populated users table
SpecProv == InitProv /\ [][NextProv]_vars

\* ------------------------------------------- credentials and GET /auth/me
\* expires_delta arguments: none, and one hour
Deltas == {0, 1}

\* bearer strings a client can present: not a JWT, JWTs signed with the
\* service's key or with another key, a subject with a leading zero, and
\* payloads without sub or without email
Tokens ==
    {NoToken}
    \cup {Token(k, str(i), e, x) :
            k \in {jwt_secret_key, "other"}, i \in UserIds, e \in Emails,
            x \in 1..MaxClock}
    \cup {Token(jwt_secret_key, <<0, 1>>, "e1", MaxClock),
          Token(jwt_secret_key, <<>>, "e1", MaxClock),
          Token(jwt_secret_key, str(1), NULL, MaxClock)}

\* JWTAuth.create_access_token(user_id, email, expires_delta) called directly
IssueToken ==
    /\ \E u \in UserIds, e \in Emails, d \in Deltas :
         LET tok == create_access_token(u, e, d, clock) IN
         jissue' = [called |-> TRUE, user_id |-> u, email |-> e,
                    expires_delta |-> d, at |-> clock, ok |-> tok.ok,
                    exc |-> tok.exc, token |-> tok.token]
    /\ UNCHANGED <<users, nextId, clock>>
    /\ UNCHANGED <<rvars, tvars, mvars, dvars, nvars, pvars>>

\* an hour passes
Tick ==
    /\ clock < MaxClock
    /\ clock' = clock + 1
    /\ UNCHANGED <<users, nextId, jissue>>
    /\ UNCHANGED <<rvars, tvars, mvars, dvars, nvars, pvars>>

\* GET /auth/me with "Authorization: Bearer <token>"
Me ==
    /\ \E token \in Tokens :
         LET res == get_current_user(users, token, clock) IN
         /\ mtoken' = token
         /\ mat' = clock
         /\ mverify' = verify_token(token, clock)
         /\ mstatus' = res.status
         /\ muser' = res.user
    /\ UNCHANGED <<users, nextId>>
    /\ UNCHANGED <<rvars, tvars, jvars, dvars, nvars, pvars>>

InitMe == InitProv

NextJwt ==
    \/ IssueToken
    \/ Tick

\* credentials issued by direct calls as time passes
SpecJwt == InitMe /\ [][NextJwt]_vars

NextMe ==
    \/ Me
    \/ Tick

\* bearer tokens presented against a populated users table as time passes
SpecMe == InitMe /\ [][NextMe]_vars

\* ------------------------------------------- updates and provisioning together
FrameReqs == {1, 2}

FrameTasks == {NReq + 1}

NextFrame ==
    \/ \E r \in FrameReqs : BeginEmail(r)
    \/ \E r \in FrameReqs : BeginGoogle(r)
    \/ \E r \in FrameReqs : GetByEmail(r)
    \/ \E r \in FrameReqs : GetByGoogleId(r)
    \/ \E r \in FrameReqs : CouSelect(r)
    \/ \E r \in FrameReqs : CouUpdate(r)
    \/ \E r \in FrameReqs : CouInsert(r)
    \/ \E r \in FrameReqs : CouRefresh(r)
    \/ \E r \in FrameReqs : Schedule(r)
    \/ \E r \in FrameReqs : Issue(r)
    \/ \E t \in FrameTasks : InvokeProvision(t)
    \/ \E t \in FrameTasks : ProvFetch(t)
    \/ \E t \in FrameTasks : ProvCreate(t)
    \/ \E t \in FrameTasks : ProvWrite(t)
    \/ Tick

\* authentication requests and a directly invoked provisioning task
\* interleaved on one users table as time passes
SpecFrame == Init /\ [][NextFrame]_vars

\* -------------------------------------------------- UserDTO names directly
MaxPad == 3

Blanks(n) == [i \in 1..n |-> Blank]

Letters(n) == [i \in 1..n |-> "a"]

\* names around both ends of the length range, with surrounding blanks
Names ==
    {Blanks(l) \o Letters(k) \o Blanks(r) :
        l \in 0..MaxPad, r \in 0..MaxPad,
        k \in {0, 1, 2, MaxNameLen - 2, MaxNameLen - 1, MaxNameLen,
               MaxNameLen + 1}}

\* UserDTO(email=..., name=v) runs the field validator on v
ValidateName ==
    /\ \E v \in Names :
         /\ nname' = v
         /\ nres' = validate_name(v)
    /\ UNCHANGED <<users, nextId>>
    /\ UNCHANGED <<rvars, tvars, jvars, mvars, dvars, pvars>>

NextName ==
    \/ ValidateName

\* names handed to UserDTO one after the other
SpecName == Init /\ [][NextName]_vars

\* ------------------------------------------------------- BaldnessDetector
\* numbers with two decimals are kept in hundredths, the percentage with one
\* decimal in tenths of a percent
Levels == 0..100

\* list(BaldnessRegion)
Regions == <<"CROWN", "FRONTAL", "TEMPORAL", "VERTEX", "OVERALL">>

\* random.uniform(0.8, 1.2) and random.uniform(0.7, 1.0) at the ends of
\* their ranges, in hundredths
ConfidenceFactors == {80, 120}

PixelFactors == {70, 100}

\* the two uniform factors drawn for a region
Draws == [f : ConfidenceFactors, g : PixelFactors]

\* round(x, ndigits) of the quotient n / d, to the nearest integer
round(n, d) == (2 * n + d) \div (2 * d)

Min(a, b) == IF a < b THEN a ELSE b

Max(a, b) == IF a > b THEN a ELSE b

\* _get_baldness_category with the bounds of the ranges on the wrong side
get_baldness_category_le(level) ==
    IF level <= 10 THEN "NONE"
    ELSE IF level <= 30 THEN "SLIGHT"
    ELSE IF level <= 50 THEN "MODERATE"
    ELSE IF level <= 70 THEN "SIGNIFICANT"
    ELSE IF level <= 90 THEN "SEVERE"
    ELSE "COMPLETE"

\* BaldnessDetector._get_baldness_category
get_baldness_category(level) ==
    IF level < 10 THEN "NONE"
    ELSE IF level < 30 THEN "SLIGHT"
    ELSE IF level < 50 THEN "MODERATE"
    ELSE IF level < 70 THEN "SIGNIFICANT"
    ELSE IF level < 90 THEN "SEVERE"
    ELSE "COMPLETE"

\* the confidence without min(1.0, max(0.1, ...))
confidence_unclamped(level, f) == level * f

\* confidence = min(1.0, max(0.1, baldness_level * random.uniform(0.8, 1.2))),
\* in ten-thousandths
confidence(level, f) == Min(10000, Max(1000, level * f))

\* BaldnessArea(region, round(confidence, 2), round(pixel_pct, 1)) with
\* pixel_pct = confidence * 100 * random.uniform(0.7, 1.0)
BaldnessArea(region, level, draw) ==
    [region |-> region,
     confidenceScore |-> round(confidence(level, draw.f), 100),
     pixelPercentage |-> round(confidence(level, draw.f) * draw.g, 1000)]

\* BaldnessDetector.process_image on data that PIL can open: the level is
\* drawn and the category computed from it
ProcessImage ==
    /\ ~presult.called
    /\ \E level \in Levels :
         presult' = [called |-> TRUE, level |-> level,
                     category |-> get_baldness_category(level),
                     areas |-> <<>>, next |-> 1, returned |-> FALSE]
    /\ UNCHANGED <<users, nextId>>
    /\ UNCHANGED <<rvars, tvars, jvars, mvars, dvars, nvars>>

\* BaldnessDetector._generate_baldness_areas, one pass of "for region in
\* regions": the region is left out when the level is below 0.5 and
\* random.random() > baldness_level*2, otherwise its area is appended
GenerateArea ==
    /\ presult.called /\ presult.next <= Len(Regions)
    /\ \/ /\ presult.level < 50
          /\ presult' = [presult EXCEPT !.next = @ + 1]
       \/ \E draw \in Draws :
            presult' = [presult EXCEPT
                          !.areas = Append(@, BaldnessArea(Regions[presult.next],
                                                           presult.level, draw)),
                          !.next = @ + 1]
    /\ UNCHANGED <<users, nextId>>
    /\ UNCHANGED <<rvars, tvars, jvars, mvars, dvars, nvars>>

\* return BaldnessResult(processedImage, baldnessLevel, baldnessCategory,
\* baldnessAreas)
ReturnResult ==
    /\ presult.called /\ presult.next > Len(Regions) /\ ~presult.returned
    /\ presult' = [presult EXCEPT !.returned = TRUE]
    /\ UNCHANGED <<users, nextId>>
    /\ UNCHANGED <<rvars, tvars, jvars, mvars, dvars, nvars>>

NextProcess ==
    \/ ProcessImage
    \/ GenerateArea
    \/ ReturnResult

\* one direct call of process_image
SpecProcess == Init /\ [][NextProcess]_vars

\* ------------------------------------------------------ detection endpoints
\* text compared by prefix is kept as a sequence of characters
image_prefix ==
    <<"i", "m", "a", "g", "e", "/">>

FileMustBeAnImage ==
    <<"F", "i", "l", "e", " ", "m", "u", "s", "t", " ", "b", "e", " ", "a",
      "n", " ", "i", "m", "a", "g", "e">>

ErrorProcessingImage ==
    <<"E", "r", "r", "o", "r", " ", "p", "r", "o", "c", "e", "s", "s", "i",
      "n", "g", " ", "i", "m", "a", "g", "e", ":", " ">>

\* str(e) of the AttributeError raised by None.startswith
NoneTypeMessage ==
    <<"'", "N", "o", "n", "e", "T", "y", "p", "e", "'", " ", "o", "b", "j",
      "e", "c", "t", " ", "h", "a", "s", " ", "n", "o", " ", "a", "t", "t",
      "r", "i", "b", "u", "t", "e", " ", "'", "s", "t", "a", "r", "t", "s",
      "w", "i", "t", "h", "'">>

\* str(e) of exceptions raised by photo.read() and by process_image
\* (PIL's UnidentifiedImageError, and an exception without a message)
Messages ==
    {<<>>,
     <<"c", "a", "n", "n", "o", "t", " ", "i", "d", "e", "n", "t", "i",
       "f", "y", " ", "i", "m", "a", "g", "e", " ", "f", "i", "l", "e">>}

\* str.startswith
startswith(s, prefix) ==
    Len(s) >= Len(prefix) /\ SubSeq(s, 1, Len(prefix)) = prefix

ContentType(value) == [present |-> TRUE, value |-> value]

ContentTypes ==
    {NoContentType,
     ContentType(<<>>),
     ContentType(image_prefix),
     ContentType(image_prefix \o <<"p", "n", "g">>),
     ContentType(<<"I">> \o Tail(image_prefix) \o <<"p", "n", "g">>),
     ContentType(<<"i", "m", "a", "g", "e">>),
     ContentType(<<"t", "e", "x", "t", "/", "p", "l", "a", "i", "n">>)}

Bearer(token) == [present |-> TRUE, credentials |-> token]

Headers ==
    {NoHeader}
    \cup {Bearer(t) :
            t \in {NoToken,
                   Token(jwt_secret_key, str(1), "e1", MaxClock),
                   Token(jwt_secret_key, str(1), "e1", 1),
                   Token(jwt_secret_key, str(2), "e1", MaxClock),
                   Token("other", str(1), "e1", MaxClock)}}

\* HTTPBearer letting a request without Authorization header through
security_open(header) ==
    [ok |-> TRUE, status |-> 200, detail |-> "",
     credentials |-> header.credentials]

\* security = HTTPBearer(): a request without Authorization header is
\* answered 403 before get_current_user runs
security(header) ==
    IF ~header.present
    THEN [ok |-> FALSE, status |-> 403, detail |-> "Not authenticated",
          credentials |-> NoToken]
    ELSE [ok |-> TRUE, status |-> 200, detail |-> "",
          credentials |-> header.credentials]

HTTPException(status_code, detail) ==
    [raised |-> TRUE, http |-> TRUE, status_code |-> status_code,
     detail |-> detail]

\* an exception that is not an HTTPException; detail holds str(e)
Exception(message) ==
    [raised |-> TRUE, http |-> FALSE, status_code |-> 0, detail |-> message]

\* the handlers' except clauses without "except HTTPException: raise"
handle_all(e) == HTTPException(500, ErrorProcessingImage \o e.detail)

\* the handlers' except clauses: an HTTPException is re-raised, any other
\* exception becomes a 500
handle(e) ==
    IF e.http THEN e
    ELSE HTTPException(500, ErrorProcessingImage \o e.detail)

Endpoints == {"/detect-baldness", "/detect-baldness/stream"}

\* lengths in bytes of json.dumps(metadata).encode('utf-8') and of
\* base64.b64decode(result.processedImage), below and above one byte's range
MetadataSizes == {2, 258}

ImageSizes == {1, 513}

\* n bytes; the content of the JSON text and of the image is not modelled
Bytes(n, b) == [i \in 1..n |-> b]

\* int.to_bytes(4, byteorder='little')
to_bytes_little(n) ==
    <<n % 256, (n \div 256) % 256, (n \div 65536) % 256,
      (n \div 16777216) % 256>>

\* int.to_bytes(4, byteorder='big')
to_bytes(n) ==
    <<(n \div 16777216) % 256, (n \div 65536) % 256, (n \div 256) % 256,
      n % 256>>

\* the values stream_generator() yields, in order
stream_generator(result) ==
    <<to_bytes(result.metadata), Bytes(result.metadata, 123),
      to_bytes(result.image), Bytes(result.image, 137)>>

\* an exception leaves the try block of the handler
Raise(e) ==
    /\ dexc' = e
    /\ dstatus' = handle(e).status_code
    /\ ddetail' = handle(e).detail
    /\ dpc' = "done"

\* POST /detect-baldness or /detect-baldness/stream arrives and FastAPI
\* resolves Depends(get_current_user)
DetBegin ==
    /\ dpc \in {"idle", "done"}
    /\ \E endpoint \in Endpoints, header \in Headers, ct \in ContentTypes :
         LET sec == security(header)
             res == get_current_user(users, sec.credentials, clock)
         IN  /\ dreq' = [endpoint |-> endpoint, header |-> header,
                         content_type |-> ct]
             /\ IF ~sec.ok
                THEN /\ ddep' = [status |-> sec.status, detail |-> sec.detail]
                     /\ dstatus' = sec.status
                     /\ dpc' = "done"
                ELSE IF res.status # 200
                THEN /\ ddep' = [status |-> res.status, detail |-> res.detail]
                     /\ dstatus' = res.status
                     /\ dpc' = "done"
                ELSE /\ ddep' = [status |-> 200, detail |-> ""]
                     /\ dstatus' = 0
                     /\ dpc' = "validate"
    /\ dexc' = NoExc
    /\ ddetail' = <<>>
    /\ dread' = FALSE
    /\ dinvoked' = FALSE
    /\ dresult' = NoSizes
    /\ dchunks' = <<>>
    /\ UNCHANGED <<users, nextId>>
    /\ UNCHANGED <<rvars, tvars, jvars, mvars, nvars, pvars>>

\* if not photo.content_type.startswith('image/')
DetValidate ==
    /\ dpc = "validate"
    /\ LET ct == dreq.content_type IN
       IF ~ct.present
       THEN Raise(Exception(NoneTypeMessage))
       ELSE IF ~startswith(ct.value, image_prefix)
       THEN Raise(HTTPException(400, FileMustBeAnImage))
       ELSE /\ dpc' = "read"
            /\ UNCHANGED <<dexc, dstatus, ddetail>>
    /\ UNCHANGED <<dreq, ddep, dread, dinvoked, dresult, dchunks>>
    /\ UNCHANGED <<users, nextId>>
    /\ UNCHANGED <<rvars, tvars, jvars, mvars, nvars, pvars>>

\* image_data = await photo.read()
DetRead ==
    /\ dpc = "read"
    /\ dread' = TRUE
    /\ \/ /\ dpc' = "process"
          /\ UNCHANGED <<dexc, dstatus, ddetail>>
       \/ \E m \in Messages : Raise(Exception(m))
    /\ UNCHANGED <<dreq, ddep, dinvoked, dresult, dchunks>>
    /\ UNCHANGED <<users, nextId>>
    /\ UNCHANGED <<rvars, tvars, jvars, mvars, nvars, pvars>>

\* result = await BaldnessDetector.process_image(image_data); /detect-baldness
\* returns the result, /detect-baldness/stream returns a StreamingResponse
\* over stream_generator()
DetProcess ==
    /\ dpc = "process"
    /\ dinvoked' = TRUE
    /\ \/ \E m \in MetadataSizes, i \in ImageSizes :
            /\ dresult' = [metadata |-> m, image |-> i]
            /\ dstatus' = 200
            /\ dpc' = IF dreq.endpoint = "/detect-baldness/stream"
                      THEN "stream" ELSE "done"
            /\ UNCHANGED <<dexc, ddetail>>
       \/ (\E m \in Messages : Raise(Exception(m))) /\ UNCHANGED dresult
    /\ UNCHANGED <<dreq, ddep, dread, dchunks>>
    /\ UNCHANGED <<users, nextId>>
    /\ UNCHANGED <<rvars, tvars, jvars, mvars, nvars, pvars>>

\* the response iterates stream_generator(): each step sends what the next
\* yield produces, and the response is over after the last one
DetStream ==
    /\ dpc = "stream"
    /\ dchunks' = Append(dchunks, stream_generator(dresult)[Len(dchunks) + 1])
    /\ dpc' = IF Len(dchunks) + 1 = Len(stream_generator(dresult))
              THEN "done" ELSE "stream"
    /\ UNCHANGED <<dreq, ddep, dexc, dstatus, ddetail, dread, dinvoked, dresult>>
    /\ UNCHANGED <<users, nextId>>
    /\ UNCHANGED <<rvars, tvars, jvars, mvars, nvars, pvars>>

NextDetect ==
    \/ DetBegin
    \/ DetValidate
    \/ DetRead
    \/ DetProcess
    \/ DetStream
    \/ Tick

\* detection requests against a populated users table as time passes
SpecDetect == InitMe /\ [][NextDetect]_vars

\* ==================================================================== claims
RowsWithEmail(e) == {u \in users : u.email = e}

SameEmail(r1, r2) == rdto[r1] # NoDto /\ rdto[r1].email = rdto[r2].email

\* the task request r registered with add_task, if any
Scheduled(r) == tpc[r] # "idle"

\* every other request carrying r's email began after r's create-or-get returned
Alone(r) ==
    \A q \in Reqs \ {r} : SameEmail(r, q) => r \in rpred[q]

\* C1: requests racing create-or-get on one unseen email all return the id
\* of the single row for that email, and none of them ends with the
\* uniqueness violation as its error.
C1_ConcurrentUniqueness ==
    \A r \in Reqs :
        (rdto[r] # NoDto /\ rpc[r] \in {"schedule", "issue", "done"}) =>
            /\ rexc[r] # "IntegrityError"
            /\ Cardinality(RowsWithEmail(rdto[r].email)) = 1
            /\ ruser[r].id = get_by_email(users, rdto[r].email).id

\* C2: among the requests carrying one email at most one obtains
\* is_new = true, and at most one provisioning task is scheduled per user id.
C2_ExactlyOnceIsNew ==
    /\ \A r1, r2 \in Reqs :
          (r1 # r2 /\ SameEmail(r1, r2) /\ CogDone(r1) /\ CogDone(r2)) =>
              ~(IsNew(r1) /\ IsNew(r2))
    /\ \A u \in UserIds :
          Cardinality({r \in Reqs : Scheduled(r) /\ tuid[r] = u}) <= 1

\* C3: when a create-or-get call with claims c on an unseen email has
\* returned and a second call with the same claims follows it, the first call
\* inserted the row it returned, the second call inserts nothing, does not
\* fail on the uniqueness constraint and returns the same id, and the table
\* holds one row for the email.
C3_Idempotence ==
    \A r1, r2 \in Reqs :
        (r1 # r2 /\ Alone(r1) /\ r1 \in rpred[r2] /\ rdto[r2] = rdto[r1]) =>
            /\ rinserted[r1] = ruser[r1].id
            /\ rinserted[r2] = 0
            /\ rexc[r2] # "IntegrityError"
            /\ CogDone(r2) =>
                  /\ ruser[r2].id = ruser[r1].id
                  /\ Cardinality(RowsWithEmail(rdto[r1].email)) = 1

C3_Witness ==
    \E r1, r2 \in Reqs :
        /\ r1 # r2 /\ Alone(r1) /\ r1 \in rpred[r2] /\ rdto[r2] = rdto[r1]
        /\ CogDone(r2)
        /\ ruser[r2].id = rinserted[r1]

\* C4: no two distinct rows of the users table have the same email.
C4_UniqueEmail ==
    \A u, v \in users : u.email = v.email => u = v

C4_Witness ==
    \E r1, r2 \in Reqs :
        /\ r1 # r2 /\ SameEmail(r1, r2)
        /\ rinserted[r1] # 0
        /\ rexc[r2] = "IntegrityError"

\* C5: no two distinct rows of the users table have the same non-null
\* google_id.
C5_UniqueGoogleId ==
    \A u, v \in users :
        (u.google_id # NULL /\ u.google_id = v.google_id) => u = v

\* C6: a wallet_address that is non-null stays what it is: no step changes
\* it to another value or back to null.
C6_WalletWriteOnce ==
    [][\A u \in users : u.wallet_address # NULL =>
          \E v \in users' : v.id = u.id /\ v.wallet_address = u.wallet_address]_vars

\* C7: for one user id, update_wallet_address is executed by at most one of
\* the provisioning tasks invoked for it.
C7_ProvisionWritesOnce ==
    \A u \in UserIds :
        Cardinality({t \in Tasks : twrote[t] /\ tuid[t] = u}) <= 1

\* C8: create-or-get returns is_new = true exactly when the call inserted a
\* row; a call that found a row by email or by google_id inserts nothing.
C8_IsNewIffInserted ==
    \A r \in Reqs :
        CogDone(r) => (IsNew(r) <=> rinserted[r] # 0)

\* C9: a request whose create-or-get returned is_new = false schedules no
\* provisioning, and of two requests run in sequence with one email the
\* second schedules none.
C9_NoReprovision ==
    /\ \A r \in Reqs : Scheduled(r) => (CogDone(r) /\ IsNew(r))
    /\ \A r1, r2 \in Reqs :
          (r1 \in rpred[r2] /\ SameEmail(r1, r2)) => ~Scheduled(r2)

C9_Witness ==
    \E r1, r2 \in Reqs :
        /\ r1 \in rpred[r2] /\ SameEmail(r1, r2)
        /\ Scheduled(r1)
        /\ rpc[r2] = "done" /\ CogDone(r2) /\ ~IsNew(r2)

\* C10: the task a request scheduled executes nothing (no re-fetch, no
\* external call, no write) before the request's response is returned.
C10_ResponseBeforeProvisioning ==
    \A r \in Reqs :
        tpc[r] \in {"fetch", "create", "write", "failed", "done"} => rstatus[r] # 0

C10_Witness ==
    \E r \in Reqs : Scheduled(r) /\ tuid[r] = ruser[r].id /\ rstatus[r] # 0

\* C11: when the external wallet call or the write that follows it fails, the
\* step that fails changes no row and no response, the task has written
\* nothing and holds no address, and the task stays failed: it raises
\* nothing further and is not run again.
C11_FailureContained ==
    [][\A t \in Tasks :
          /\ (tpc[t] # "failed" /\ tpc'[t] = "failed") =>
                /\ users' = users
                /\ rstatus' = rstatus
                /\ ~twrote'[t] /\ taddr'[t] = NULL
          /\ tpc[t] = "failed" =>
                /\ tpc'[t] = "failed"
                /\ ~twrote'[t] /\ taddr'[t] = NULL]_vars

C11_Witness ==
    \E t, w \in Tasks :
        /\ tpc[t] = "failed" /\ twrote[w]
        /\ get_by_id(users, tuid[t]) # NoUser
        /\ get_by_id(users, tuid[t]).wallet_address = NULL

\* C12: a provisioning task whose re-fetch finds a wallet_address on the
\* user ends at once without changing the table, and never makes the
\* external call or the write afterwards.
C12_NoopWhenProvisioned ==
    [][\A t \in Tasks :
          /\ (tpc[t] = "fetch" /\ tpc'[t] # "fetch"
                /\ get_by_id(users, tuid[t]).wallet_address # NULL) =>
                /\ tpc'[t] = "done"
                /\ users' = users
                /\ ~twrote'[t]
          /\ tpc[t] = "done" =>
                /\ tpc'[t] = "done"
                /\ twrote'[t] = twrote[t]]_vars

C12_Witness ==
    \E t \in Tasks :
        /\ tpc[t] = "done" /\ ~twrote[t] /\ taddr[t] # NULL
        /\ get_by_id(users, tuid[t]).wallet_address = taddr[t]

\* the literal name sent by request r passes UserDTO's validator
ValidName(r) == validate_name(rreq[r].name).ok

\* C13: every POST /auth/email request with a valid name ends with status
\* 200 and carries an access token.
C13_EmailFlowSucceeds ==
    \A r \in Reqs :
        (rflow[r] = "email" /\ rpc[r] = "done" /\ ValidName(r)) =>
            /\ rstatus[r] = 200
            /\ rtoken[r] # NoToken

C15_CredentialRoundTrip ==
    (jissue.called /\ jissue.expires_delta > 0) =>
        /\ jissue.ok
        /\ LET payload == verify_token(jissue.token, jissue.at) IN
           /\ payload # NoPayload
           /\ payload.sub = str(jissue.user_id)
           /\ payload.email = jissue.email

\* a JWT signed with the service's key whose exp lies in the past
IsExpired(token, now) ==
    token.wellformed /\ token.key = jwt_secret_key /\ now > token.exp

\* a bearer string that is not a JWT signed with the service's key
IsInvalid(token) == ~token.wellformed \/ token.key # jwt_secret_key

\* C16: what verify_token returns for an expired token differs from what
\* it returns for any invalid token, so that a caller can tell them apart.
C16_ExpiredVsInvalid ==
    (mstatus # 0 /\ IsExpired(mtoken, mat)) =>
        \A t \in Tokens : IsInvalid(t) => verify_token(t, mat) # mverify

\* the row that the token presented to GET /auth/me names by email and sub
SubjectRows ==
    {u \in users : u.email = mtoken.email /\ str(u.id) = mtoken.sub}

\* C18: GET /auth/me answers 200 only when verify_token accepted the
\* token, a row with the token's email exists and the id of that row is the
\* token's sub, and it then returns that row; every other request that
\* presents a bearer token is answered 401.
C18_StaleSubjectRejected ==
    mstatus # 0 =>
        /\ mstatus \in {200, 401}
        /\ mstatus = 200 =>
              /\ mverify # NoPayload
              /\ muser \in SubjectRows
        /\ (mverify = NoPayload \/ SubjectRows = {}) => mstatus = 401

C18_Witness ==
    /\ mstatus = 401
    /\ mverify # NoPayload
    /\ RowsWithEmail(mtoken.email) # {}
    /\ SubjectRows = {}
    /\ get_by_id(users, 1) # NoUser /\ mtoken.sub = str(1)

\* the provider call of request r raised, was answered with a non-success
\* status, or returned a profile without email
GoogleRejected(r) ==
    /\ rflow[r] = "google"
    /\ rreq[r].raised \/ rreq[r].status # 200 \/ rreq[r].email = NULL

\* request r is over without a row inserted or updated by it, without a
\* credential and without a provisioning task
NoSideEffect(r) ==
    /\ rpc[r] = "done"
    /\ rdto[r] = NoDto /\ rbranch[r] = "none" /\ rinserted[r] = 0
    /\ rtoken[r] = NoToken
    /\ ~Scheduled(r)

\* C19: a Google-flow request whose provider call failed, was answered
\* with a non-success status or returned no email is over with status 401
\* once the answer is in, and it has inserted or updated no row, issued no
\* credential and scheduled no provisioning.
C19_GoogleFailureSideEffectFree ==
    \A r \in Reqs :
        GoogleRejected(r) => (rstatus[r] = 401 /\ NoSideEffect(r))

C19_Witness ==
    \E r1, r2 \in Reqs :
        /\ GoogleRejected(r1) /\ (rreq[r1].raised \/ rreq[r1].status = 401)
        /\ GoogleRejected(r2) /\ rreq[r2].status = 200
        /\ rstatus[r1] = 401 /\ rstatus[r2] = 401

\* the literal name sent to the email flow by request r is empty after
\* trimming or longer than the limit
InvalidName(r) ==
    /\ rflow[r] = "email"
    /\ strip(rreq[r].name) = <<>> \/ Len(rreq[r].name) > MaxNameLen

\* C20: an email-flow request whose name is empty after trimming or longer
\* than 255 characters is over with status 400 once it is received, and it
\* has inserted or updated no row, issued no credential and scheduled no
\* provisioning.
C20_EmailValidationRejects ==
    \A r \in Reqs :
        InvalidName(r) => (rstatus[r] = 400 /\ NoSideEffect(r))

C20_Witness ==
    \E r1, r2 \in Reqs :
        /\ InvalidName(r1) /\ Len(rreq[r1].name) > MaxNameLen
        /\ InvalidName(r2) /\ strip(rreq[r2].name) = <<>>
        /\ rstatus[r1] = 400 /\ rstatus[r2] = 400

\* C21: when the same POST /auth/email request is made again after the
\* first one was answered, both are answered 200, the two tokens differ, and
\* the user id in both tokens and in both user views is the same.
C21_FreshCredentialSameUser ==
    \A r1, r2 \in Reqs :
        (/\ r1 \in rpred[r2] /\ rpc[r1] = "done" /\ rpc[r2] = "done"
         /\ rflow[r1] = "email" /\ rflow[r2] = "email"
         /\ rreq[r1] = rreq[r2]) =>
            /\ rstatus[r1] = 200 /\ rstatus[r2] = 200
            /\ rtoken[r1] # rtoken[r2]
            /\ rtoken[r1].sub = str(ruser[r1].id)
            /\ rtoken[r2].sub = str(ruser[r1].id)
            /\ ruser[r2].id = ruser[r1].id

\* C26: the UPDATE of create_or_update made for claims without a provider
\* subject id leaves the google_id of the row it matches by email as it was.
C26_GoogleIdKeptWhenAbsent ==
    [][\A r \in Reqs :
          (rpc[r] = "cou_update" /\ rpc'[r] = "schedule"
            /\ rdto[r].google_id = NULL) =>
              \A u \in users :
                  u.email = rdto[r].email =>
                      \E v \in users' : v.id = u.id /\ v.google_id = u.google_id]_vars

\* C27: a create-or-get call that found no row by email but found one by
\* google_id returns is_new = false and a row it did not insert: the number
\* of rows is what it was.
C27_ResolvedByGoogleId ==
    \A r \in Reqs :
        (rbranch[r] = "google_id" /\ CogDone(r)) =>
            /\ ~IsNew(r)
            /\ rinserted[r] = 0
            /\ ruser[r].id # rinserted[r]

\* C28: a Google-flow request whose profile has an email but no name builds
\* claims with an empty name and is not rejected for the missing name.
C28_MissingNameAccepted ==
    \A r \in Reqs :
        (/\ rflow[r] = "google" /\ rpc[r] = "done"
         /\ ~rreq[r].raised /\ rreq[r].status = 200
         /\ rreq[r].email # NULL /\ ~rreq[r].has_name) =>
            /\ rexc[r] # "Name cannot be empty"
            /\ rdto[r] # NoDto
            /\ rdto[r].name = <<>>

C22_UniqueWalletAddress ==
    \A u, v \in users :
        (u.wallet_address # NULL /\ u.wallet_address = v.wallet_address) => u = v

C22_Witness ==
    \E t \in Tasks :
        /\ tpc[t] = "failed" /\ texc[t] = "IntegrityError"
        /\ get_by_id(users, tuid[t]) # NoUser
        /\ \E v \in users : v.id # tuid[t] /\ v.wallet_address # NULL

C24_ContentTypeGate ==
    (dpc = "done" /\ ddep.status = 200) =>
        IF dreq.content_type.present
           /\ startswith(dreq.content_type.value, image_prefix)
        THEN ~(dstatus = 400 /\ ddetail = FileMustBeAnImage)
        ELSE dstatus = 400 /\ ddetail = FileMustBeAnImage /\ ~dinvoked

\* C25: on both detection endpoints an exception other than HTTPException
\* raised inside the handler is answered 500 with a detail that begins with
\* 'Error processing image', and the HTTPException of the content-type
\* rejection reaches the caller with its status 400.
C25_ErrorMapping ==
    (dpc = "done" /\ dexc.raised) =>
        IF dexc.http
        THEN dstatus = dexc.status_code /\ dstatus = 400
             /\ ddetail = FileMustBeAnImage
        ELSE dstatus = 500 /\ startswith(ddetail, ErrorProcessingImage)

C25_Witness ==
    /\ dpc = "done"
    /\ dreq.endpoint = "/detect-baldness/stream"
    /\ dinvoked
    /\ dexc.raised /\ ~dexc.http /\ dexc.detail # <<>>
    /\ dstatus = 500
    /\ ddetail = ErrorProcessingImage \o dexc.detail

\* C30: no step of create_or_update or update_wallet_address changes the
\* id, email or created_at of a row, and no step of an authentication
\* request changes a row's wallet_address.
C30_UpdateFrame ==
    [][\A u \in users : \E v \in users' :
          /\ v.id = u.id
          /\ v.email = u.email
          /\ v.created_at = u.created_at
          /\ rpc' # rpc => v.wallet_address = u.wallet_address]_vars

C30_Witness ==
    \E u \in users, r \in FrameReqs, t \in FrameTasks :
        /\ u.created_at > 0
        /\ u.wallet_address # NULL
        /\ tuid[t] = u.id /\ twrote[t]
        /\ rbranch[r] = "email" /\ CogDone(r)
        /\ ruser[r].id = u.id
        /\ ruser[r].wallet_address # NULL

\* C31: a name is accepted exactly when its length after trimming the
\* surrounding whitespace is between 1 and 255, also when its length before
\* trimming exceeds 255, and the accepted name is the trimmed value.
C31_NameLengthBoundary ==
    nres # NoValidation =>
        /\ nres.ok <=> (Len(strip(nname)) >= 1 /\ Len(strip(nname)) <= MaxNameLen)
        /\ nres.ok => nres.value = strip(nname)

C33_SingleProviderRoundTrip ==
    \A r \in Reqs :
        /\ rpc[r] = "idle" =>
              /\ rcalls[r] = 0
              /\ rbranch[r] = "none" /\ ruser[r] = NoUser /\ rinserted[r] = 0
        /\ rflow[r] = "google" => rcalls[r] = 1
        /\ (rflow[r] = "google" /\ (rreq[r].raised \/ rreq[r].status # 200)) =>
              /\ rpc[r] = "done"
              /\ rbranch[r] = "none" /\ ruser[r] = NoUser /\ rinserted[r] = 0

C33_Witness ==
    \E r1, r2 \in Reqs :
        /\ rflow[r1] = "google" /\ rreq[r1].raised /\ rpc[r1] = "done"
        /\ rcalls[r1] = 1
        /\ rflow[r2] = "google" /\ rinserted[r2] # 0 /\ rpc[r2] = "done"
        /\ rcalls[r2] = 1

\* C34: two requests of the same flow that are answered with an error get the
\* same response detail, whatever exception caused the error.
C34_GenericErrorBody ==
    \A r1, r2 \in Reqs :
        (/\ rpc[r1] = "done" /\ rpc[r2] = "done"
         /\ rflow[r1] = rflow[r2]
         /\ rstatus[r1] # 200 /\ rstatus[r2] # 200) =>
            rdetail[r1] = rdetail[r2]

\* C35: a request of either flow that is answered with an error has left no
\* row of its own in the users table and has registered no provisioning task,
\* also when the error is raised by credential issuance after create-or-get.
C35_FailedAuthenticationAtomic ==
    \A r \in Reqs :
        (rpc[r] = "done" /\ rstatus[r] # 200) =>
            /\ rinserted[r] = 0
            /\ ~Scheduled(r)

UnknownUser(t) == tuid[t] # 0 /\ ~\E u \in users : u.id = tuid[t]

\* C37: a provisioning task called with an id that has no row ends at its
\* fetch without an address, without a write and without a logged exception,
\* leaves the table as it is, and never goes on to the external call.
C37_UnknownUserNoop ==
    [][\A t \in Tasks :
          /\ (UnknownUser(t) /\ tpc[t] = "fetch" /\ tpc'[t] # "fetch") =>
                /\ tpc'[t] = "done"
                /\ users' = users
                /\ ~twrote'[t] /\ taddr'[t] = NULL /\ texc'[t] = "none"
          /\ (UnknownUser(t) /\ tpc[t] = "done") =>
                /\ tpc'[t] = "done"
                /\ ~twrote'[t] /\ taddr'[t] = NULL /\ texc'[t] = "none"]_vars

C37_Witness ==
    \E t, w \in Tasks :
        /\ UnknownUser(t) /\ tpc[t] = "done"
        /\ ~twrote[t] /\ taddr[t] = NULL /\ texc[t] = "none"
        /\ twrote[w] /\ tpc[w] = "done"

\* the areas of the result, as a set
Areas == {presult.areas[i] : i \in 1..Len(presult.areas)}

\* C39: every result of process_image has a baldnessLevel between 0 and 1,
\* and every area in it a confidenceScore between 0.1 and 1 and a
\* pixelPercentage between 0 and 100.
C39_ResultRanges ==
    presult.returned =>
        /\ presult.level >= 0 /\ presult.level <= 100
        /\ \A a \in Areas :
              /\ a.confidenceScore >= 10 /\ a.confidenceScore <= 100
              /\ a.pixelPercentage >= 0 /\ a.pixelPercentage <= 1000

C39_Witness ==
    /\ presult.returned
    /\ \E a \in Areas : a.confidenceScore = 100 /\ a.pixelPercentage = 1000
    /\ \E a \in Areas : a.confidenceScore = 100 /\ a.pixelPercentage = 700
    /\ Len(presult.areas) = Len(Regions)

\* C40: the category of a result is NONE for a level below 0.10, SLIGHT from
\* 0.10 to 0.29, MODERATE from 0.30 to 0.49, SIGNIFICANT from 0.50 to 0.69,
\* SEVERE from 0.70 to 0.89 and COMPLETE from 0.90 up.
C40_CategoryOfLevel ==
    presult.returned =>
        LET l == presult.level
            c == presult.category
        IN  /\ l \in 0..9 <=> c = "NONE"
            /\ l \in 10..29 <=> c = "SLIGHT"
            /\ l \in 30..49 <=> c = "MODERATE"
            /\ l \in 50..69 <=> c = "SIGNIFICANT"
            /\ l \in 70..89 <=> c = "SEVERE"
            /\ l \in 90..100 <=> c = "COMPLETE"

C40_Witness ==
    /\ presult.returned
    /\ presult.level = 90
    /\ presult.category = "COMPLETE"

\* the number a 4-byte big-endian chunk stands for
from_bytes(b) == ((b[1] * 256 + b[2]) * 256 + b[3]) * 256 + b[4]

\* C38: a /detect-baldness/stream response that is over with status 200 has
\* sent four chunks: a 4-byte big-endian length, the metadata of that length,
\* a 4-byte big-endian length, the image of that length; and no chunk is sent
\* before process_image has returned its result.
C38_StreamFraming ==
    /\ (/\ dpc = "done" /\ dstatus = 200
        /\ dreq.endpoint = "/detect-baldness/stream") =>
            /\ Len(dchunks) = 4
            /\ Len(dchunks[1]) = 4
            /\ from_bytes(dchunks[1]) = Len(dchunks[2])
            /\ Len(dchunks[2]) = dresult.metadata
            /\ Len(dchunks[3]) = 4
            /\ from_bytes(dchunks[3]) = Len(dchunks[4])
            /\ Len(dchunks[4]) = dresult.image
    /\ dchunks # <<>> =>
            /\ dinvoked /\ dresult # NoSizes /\ ~dexc.raised
            /\ dreq.endpoint = "/detect-baldness/stream"

C38_Witness ==
    /\ dpc = "done" /\ dstatus = 200
    /\ dreq.endpoint = "/detect-baldness/stream"
    /\ Len(dchunks) = 4
    /\ Len(dchunks[2]) = 258 /\ dchunks[1] = <<0, 0, 1, 2>>
    /\ Len(dchunks[4]) = 513 /\ dchunks[3] = <<0, 0, 2, 1>>

====
